---- MODULE Spec2Model ----
(***************************************************************************)
(* Model of app.py: the Streamlit dashboard over the oil & gas plant       *)
(* tracker.  The dataset loader (load_data, _read_source_data) with its    *)
(* parquet cache and st.cache_data memoization, the CHP normalisation,     *)
(* build_filters, apply_filters, make_map and the script body main().      *)
(*                                                                         *)
(* A Python str is a sequence of one-character strings.  A DataFrame cell  *)
(* is a record [k, s, n]: a string, a number or the missing marker.  A     *)
(* DataFrame is [cols, rows]: its column labels and the sequence of rows,  *)
(* each row a function from cols to cells.                                 *)
(***************************************************************************)
EXTENDS Integers, Sequences, FiniteSets, TLC

VARIABLES
    srcExists,    \* DATA_PATH.exists()
    srcMtime,     \* DATA_PATH.stat().st_mtime
    srcData,      \* the sheet "Gas & Oil Units" of the workbook
    cacheExists,  \* PARQUET_CACHE.exists()
    cacheMtime,   \* PARQUET_CACHE.stat().st_mtime
    cacheData,    \* the parquet file's content
    clock,        \* the file system's clock, in ticks of its resolution
    memo,         \* st.cache_data's store of load_data: key -> DataFrame
    pc,           \* where the script run of main() is
    df,           \* main: df
    choice,       \* the option index each sidebar selectbox returns
    selections,   \* main: selections
    filtered,     \* main: filtered
    ui,           \* what the run has put on the page
    run,          \* what the run's call of load_data did
    completed,    \* every completed load_data invocation: key -> result
    lastLoad,     \* source mtime and cache state at the previous returning load
    cacheOrigin,  \* the DataFrame returned by the load that wrote the cache
    chpIn,        \* a raw CHP cell
    chpOut,       \* its value after load_data's normalisation
    fD,           \* apply_filters: argument df
    fS,           \* apply_filters: argument selections
    fOut,         \* apply_filters: result
    fpc           \* whether apply_filters has returned

loaderVars == <<srcExists, srcMtime, srcData, cacheExists, cacheMtime, cacheData,
                clock, memo, completed, lastLoad, cacheOrigin, run>>
mainVars == <<pc, df, choice, selections, filtered, ui>>
chpVars == <<chpIn, chpOut>>
filterVars == <<fD, fS, fOut, fpc>>
vars == <<loaderVars, mainVars, chpVars, filterVars>>

----------------------------------------------------------------------------
(* Python str: characters, ordering, strip, lower *)

UpperSeq == <<"A","B","C","D","E","F","G","H","I","J","K","L","M",
              "N","O","P","Q","R","S","T","U","V","W","X","Y","Z">>
LowerSeq == <<"a","b","c","d","e","f","g","h","i","j","k","l","m",
              "n","o","p","q","r","s","t","u","v","w","x","y","z">>
\* Code-point order of the characters used: "\t" < " " < "-" < digits < upper < lower.
DigitSeq == <<"0","1","2","3","4","5","6","7","8","9">>
CodeOrder == <<"\t", " ", "-">> \o DigitSeq \o UpperSeq \o LowerSeq

Ord(ch) == CHOOSE i \in 1..Len(CodeOrder) : CodeOrder[i] = ch

Whitespace == {" ", "\t"}

LowerChar(ch) ==
    IF \E i \in 1..Len(UpperSeq) : UpperSeq[i] = ch
    THEN LowerSeq[CHOOSE i \in 1..Len(UpperSeq) : UpperSeq[i] = ch]
    ELSE ch

\* str.lower()
StrLower(s) == [i \in 1..Len(s) |-> LowerChar(s[i])]

RECURSIVE LStrip(_)
LStrip(s) == IF s # <<>> /\ Head(s) \in Whitespace THEN LStrip(Tail(s)) ELSE s

RECURSIVE RStrip(_)
RStrip(s) ==
    IF s # <<>> /\ s[Len(s)] \in Whitespace THEN RStrip(SubSeq(s, 1, Len(s) - 1)) ELSE s

\* str.strip()
StrStrip(s) == RStrip(LStrip(s))

\* Python's s < t on str: lexicographic by code point.
RECURSIVE StrLess(_, _)
StrLess(s, t) ==
    IF t = <<>> THEN FALSE
    ELSE IF s = <<>> THEN TRUE
    ELSE IF Ord(Head(s)) # Ord(Head(t)) THEN Ord(Head(s)) < Ord(Head(t))
    ELSE StrLess(Tail(s), Tail(t))

----------------------------------------------------------------------------
(* DataFrame cells *)

NaN == [k |-> "nan", s |-> <<>>, n |-> 0]
Str(s) == [k |-> "str", s |-> s, n |-> 0]
Num(n) == [k |-> "num", s |-> <<>>, n |-> n]

IsNa(c) == c.k = "nan"

sAll == <<"A","l","l">>
sUnknown == <<"U","n","k","n","o","w","n">>
sYes == <<"Y","e","s">>
sNo == <<"N","o">>
sNotFound == <<"N","o","t"," ","f","o","u","n","d">>

\* str(n) of an integer
RECURSIVE NatToStr(_)
NatToStr(n) == IF n < 10 THEN <<DigitSeq[n + 1]>> ELSE NatToStr(n \div 10) \o <<DigitSeq[(n % 10) + 1]>>
IntToStr(n) == IF n < 0 THEN <<"-">> \o NatToStr(-n) ELSE NatToStr(n)

IsDigit(ch) == \E i \in 1..Len(DigitSeq) : DigitSeq[i] = ch
DigitVal(ch) == (CHOOSE i \in 1..Len(DigitSeq) : DigitSeq[i] = ch) - 1

RECURSIVE StrToNat(_)
StrToNat(s) == IF s = <<>> THEN 0 ELSE 10 * StrToNat(SubSeq(s, 1, Len(s) - 1)) + DigitVal(s[Len(s)])

IsNatStr(s) == s # <<>> /\ \A i \in 1..Len(s) : IsDigit(s[i])

----------------------------------------------------------------------------
(* Column labels *)

text_cols == <<"Country", "Status", "Fuel", "Region", "Hydrogen capable?", "Technology", "CHP">>
numeric_cols == <<"Capacity (MW)", "Latitude", "Longitude", "Start year">>
\* build_filters: the keys of `options`, in insertion order
options == <<"Country", "Status", "Fuel", "Hydrogen capable?", "Region", "Technology", "CHP">>
display_cols == <<"Plant name", "Unit name", "Country", "Region", "City", "Fuel",
                  "Capacity (MW)", "Status", "Technology", "Hydrogen capable?",
                  "Start year", "Owner">>
\* make_map: lat, lon, size, color, hover_name and the keys of hover_data
map_cols == {"Latitude", "Longitude", "Capacity (MW)", "Status", "Plant name", "Unit name",
             "Country", "City", "Fuel", "Technology", "Hydrogen capable?", "Start year",
             "Owner"}

Range(q) == {q[i] : i \in 1..Len(q)}

AllCols == Range(text_cols) \cup Range(numeric_cols) \cup Range(display_cols)

NoFrame == [cols |-> {}, rows |-> <<>>]

\* df[col] for a list of labels raises KeyError unless every label is a column
HasCols(d, labels) == labels \subseteq d.cols

----------------------------------------------------------------------------
(* load_data: normalisation *)

\* Mutant of FillText: the fillna loop is left out.
FillTextNone(d) == d

\* df[col] = df[col].fillna("Unknown") for col in text_cols
FillCell(c, v) == IF c \in Range(text_cols) /\ IsNa(v) THEN Str(sUnknown) ELSE v

FillText(d) ==
    [d EXCEPT !.rows = [i \in 1..Len(d.rows) |-> [c \in d.cols |-> FillCell(c, d.rows[i][c])]]]

\* .astype(str)
AsTypeStr(v) ==
    CASE v.k = "str" -> v.s
      [] v.k = "num" -> IntToStr(v.n)
      [] OTHER -> <<"n","a","n">>

\* .map(chp_map): a key of the dict gives its value, any other string gives NaN
chp_map(s) ==
    CASE s = <<"y","e","s">> -> Str(sYes)
      [] s = <<"y">> -> Str(sYes)
      [] s = <<"n","o">> -> Str(sNo)
      [] s = <<"n">> -> Str(sNo)
      [] s = <<"n","o","t"," ","f","o","u","n","d">> -> Str(sNotFound)
      [] OTHER -> NaN

\* Mutant of ChpValue: .str.lower() is left out.
ChpValueCased(v) ==
    LET m == chp_map(StrStrip(AsTypeStr(v)))
    IN  IF IsNa(m) THEN Str(sUnknown) ELSE m

\* df["CHP"].astype(str).str.strip().str.lower().map(chp_map).fillna("Unknown")
ChpValue(v) ==
    LET m == chp_map(StrLower(StrStrip(AsTypeStr(v))))
    IN  IF IsNa(m) THEN Str(sUnknown) ELSE m

ChpCell(c, v) == IF c = "CHP" THEN ChpValue(v) ELSE v
StandardizeChp(d) ==
    IF "CHP" \in d.cols
    THEN [d EXCEPT !.rows = [i \in 1..Len(d.rows) |-> [c \in d.cols |-> ChpCell(c, d.rows[i][c])]]]
    ELSE d

\* pd.to_numeric(errors="coerce") on one value
ToNumeric(v) ==
    CASE v.k = "num" -> v
      [] v.k = "nan" -> NaN
      [] OTHER ->
           LET t == StrStrip(v.s)
           IN  IF IsNatStr(t) THEN Num(StrToNat(t))
               ELSE IF t # <<>> /\ Head(t) = "-" /\ IsNatStr(Tail(t)) THEN Num(-StrToNat(Tail(t)))
               ELSE NaN

NumericCell(c, v) == IF c \in Range(numeric_cols) THEN ToNumeric(v) ELSE v
CoerceNumeric(d) ==
    [d EXCEPT !.rows = [i \in 1..Len(d.rows) |-> [c \in d.cols |-> NumericCell(c, d.rows[i][c])]]]

\* Lines 65-88, for a frame that has every text column.
Normalize(d) == CoerceNumeric(StandardizeChp(FillText(d)))

----------------------------------------------------------------------------
(* The parquet cache: DataFrame.to_parquet / pd.read_parquet *)

ColumnCells(d, c) == {d.rows[i][c] : i \in 1..Len(d.rows)}

\* The parquet type inferred for an object/numeric column.
ColumnKind(d, c) ==
    LET ks == {v.k : v \in ColumnCells(d, c)}
    IN  IF "str" \in ks /\ "num" \in ks THEN "mixed"
        ELSE IF "str" \in ks THEN "string"
        ELSE "double"

\* to_parquet raises on a column that mixes strings and numbers.
Writable(d) == \A c \in d.cols : ColumnKind(d, c) # "mixed"

Encode(v) == [null |-> IsNa(v), bytes |-> v.s, val |-> v.n]

Decode(kind, e) ==
    IF e.null THEN NaN
    ELSE IF kind = "string" THEN Str(e.bytes)
    ELSE Num(e.val)

NoCache == [cols |-> {}, nrows |-> 0, schema |-> <<>>, columns |-> <<>>]

\* df.to_parquet(PARQUET_CACHE, index=False): a typed schema and one array per column
ToParquet(d) ==
    [cols |-> d.cols,
     nrows |-> Len(d.rows),
     schema |-> [c \in d.cols |-> ColumnKind(d, c)],
     columns |-> [c \in d.cols |-> [i \in 1..Len(d.rows) |-> Encode(d.rows[i][c])]]]

\* pd.read_parquet(PARQUET_CACHE)
ReadParquet(p) ==
    [cols |-> p.cols,
     rows |-> [i \in 1..p.nrows |-> [c \in p.cols |-> Decode(p.schema[c], p.columns[c][i])]]]

----------------------------------------------------------------------------
(* build_filters *)

\* df[col].dropna().unique()
Distinct(d, col) == {v \in ColumnCells(d, col) : ~IsNa(v)}

\* sorted(...) of str values
RECURSIVE Sorted(_)
Sorted(S) ==
    IF S = {} THEN <<>>
    ELSE LET lo == CHOOSE v \in S : \A w \in S \ {v} : StrLess(v.s, w.s)
         IN  <<lo>> \o Sorted(S \ {lo})

\* values = ["All"] + sorted(df[col].dropna().unique())
Values(d, col) == <<Str(sAll)>> \o Sorted(Distinct(d, col))

\* filters[col] = [choice] if choice != "All" else values[1:]
FilterFor(values, idx) ==
    LET ch == values[idx]
    IN  IF ch # Str(sAll) THEN <<ch>> ELSE Tail(values)

BuildFilters(d, idx) == [col \in Range(options) |-> FilterFor(Values(d, col), idx[col])]

----------------------------------------------------------------------------
(* apply_filters *)

\* Series.isin(chosen) on one value
Isin(v, chosen) == \E j \in 1..Len(chosen) : chosen[j] = v

\* Mutant of FilterStep: the `if chosen` test is left out.
FilterStepAlways(d, col, chosen) ==
    [d EXCEPT !.rows = SelectSeq(d.rows, LAMBDA r : Isin(r[col], chosen))]

\* One pass of the loop body: if chosen: df = df[df[col].isin(chosen)]
FilterStep(d, col, chosen) ==
    IF chosen # <<>>
    THEN [d EXCEPT !.rows = SelectSeq(d.rows, LAMBDA r : Isin(r[col], chosen))]
    ELSE d

\* for col, chosen in selections.items(), the keys in insertion order
RECURSIVE ApplyFrom(_, _, _)
ApplyFrom(d, sel, i) ==
    IF i > Len(options) THEN d
    ELSE ApplyFrom(FilterStep(d, options[i], sel[options[i]]), sel, i + 1)

ApplyFilters(d, sel) == ApplyFrom(d, sel, 1)

----------------------------------------------------------------------------
(* main: metrics, make_map, detail table *)

RECURSIVE SumCapacity(_)
SumCapacity(rows) ==
    IF rows = <<>> THEN 0
    ELSE (IF Head(rows)["Capacity (MW)"].k = "num" THEN Head(rows)["Capacity (MW)"].n ELSE 0)
         + SumCapacity(Tail(rows))

NoMetrics == [plants |-> -1, units |-> -1, capacity |-> -1]

\* Lines 193-196: nunique() of plant names, len(filtered), sum(skipna=True)
Metrics(d) ==
    [plants |-> Cardinality(Distinct(d, "Plant name")),
     units |-> Len(d.rows),
     capacity |-> SumCapacity(d.rows)]

\* df.dropna(subset=["Latitude", "Longitude", "Capacity (MW)"])
PlotRows(d) ==
    SelectSeq(d.rows, LAMBDA r : ~IsNa(r["Latitude"]) /\ ~IsNa(r["Longitude"])
                                  /\ ~IsNa(r["Capacity (MW)"]))

\* missing_cols = [c for c in display_cols if c not in filtered.columns]
MissingCols(d) == Range(display_cols) \ d.cols

----------------------------------------------------------------------------
(* load_data and its st.cache_data wrapper *)

DATA_PATH == "Global-Oil-and-Gas-Plant-Tracker-GOGPT-February-2024-v4.xlsx"

\* Mutant of SourceMissing: the existence check is left out.
SourceMissingNever(exists) == FALSE

\* Line 52: if not data_path.exists(): st.error(...); st.stop()
SourceMissing(exists) == ~exists

\* Mutant of UseParquet: the freshness comparison is left out.
UseParquetAnyAge(cacheEx, cache_last_modified, last_modified) == cacheEx

\* Lines 56-58
UseParquet(cacheEx, cache_last_modified, last_modified) ==
    cacheEx /\ cache_last_modified >= last_modified

\* Lines 60-63: the frame before normalisation
RawFrame(use, cData, sData) == IF use THEN ReadParquet(cData) ELSE sData

\* Mutant of LoadedFrame: the normalisation sits in the else branch, after the parse only.
LoadedFrameParseOnly(use, cData, sData) ==
    IF use THEN ReadParquet(cData) ELSE Normalize(sData)

\* Lines 60-88: the returned frame
LoadedFrame(use, cData, sData) == Normalize(RawFrame(use, cData, sData))

\* Lines 42-46: to_parquet succeeds (ioOk: the engine is installed and the write goes through)
CacheWritten(d, ioOk) == ioOk /\ Writable(d)

NoLoad == [outcome |-> "none", df |-> NoFrame, readSrc |-> FALSE, readCache |-> FALSE,
           writeTried |-> FALSE, wrote |-> FALSE, error |-> FALSE]

\* The body of load_data, run on a cache miss.  outcome: "stop" (st.stop()),
\* "crash" (an exception leaves the function) or "ok" (df is returned).
LoadBody(exists, cacheEx, m, c, sData, cData, ioOk) ==
    IF SourceMissing(exists)
    THEN [NoLoad EXCEPT !.outcome = "stop", !.error = TRUE]
    ELSE LET use == UseParquet(cacheEx, c, m)
             did == [NoLoad EXCEPT !.readCache = use,
                                   !.readSrc = ~use /\ exists,
                                   !.writeTried = ~use /\ exists,
                                   !.wrote = ~use /\ exists /\ CacheWritten(sData, ioOk)]
         IN  IF ~use /\ ~exists
             THEN [did EXCEPT !.outcome = "crash"]               \* read_excel: no such file
             ELSE IF ~HasCols(RawFrame(use, cData, sData), Range(text_cols))
             THEN [did EXCEPT !.outcome = "crash"]               \* line 68: KeyError
             ELSE [did EXCEPT !.outcome = "ok", !.df = LoadedFrame(use, cData, sData)]

\* st.cache_data: the key of a call, and the store after a call that returned
MemoKey(path, last_modified, cache_last_modified) == <<path, last_modified, cache_last_modified>>

\* Mutant of MemoStore: the result is not kept.
MemoStoreNone(store, key, val) == store

MemoStore(store, key, val) == (key :> val) @@ store

----------------------------------------------------------------------------
(* The workbooks the model is run on *)

sUSA == <<"U","S","A">>
sIndia == <<"I","n","d","i","a">>
sOperating == <<"O","p","e","r","a","t","i","n","g">>
sRetired == <<"R","e","t","i","r","e","d">>

Row(plant, country, status, chp, cap, lat, lon) ==
    [c \in AllCols |->
        CASE c = "Plant name" -> plant
          [] c = "Unit name" -> Str(<<"U","1">>)
          [] c = "Country" -> country
          [] c = "Status" -> status
          [] c = "CHP" -> chp
          [] c = "Capacity (MW)" -> cap
          [] c = "Latitude" -> lat
          [] c = "Longitude" -> lon
          [] c = "Fuel" -> Str(<<"G","a","s">>)
          [] c = "Region" -> Str(<<"R","1">>)
          [] c = "Technology" -> Str(<<"G","T">>)
          [] c = "Hydrogen capable?" -> Str(<<"n","o">>)
          [] c = "City" -> Str(<<"C","1">>)
          [] c = "Start year" -> Str(<<"2","0","0","5">>)
          [] OTHER -> Str(<<"O","w">>)]

RowA == Row(Str(<<"P","1">>), Str(sUSA), Str(sOperating), Str(<<"y","e","s">>),
            Num(100), Num(30), Num(-90))
RowB == Row(Str(<<"P","2">>), Str(sIndia), Str(sRetired), Str(<<"N","O","T"," ","F","O","U","N","D">>),
            Num(50), Num(20), Num(80))
RowC == Row(Str(<<"P","1">>), NaN, Str(sOperating), NaN, NaN, NaN, NaN)
RowD == Row(NaN, Str(sAll), NaN, Str(<<" ","Y","e","s"," ">>), Num(25), Num(10), Num(10))
RowE == Row(Str(<<"P","3">>), Str(sUSA), Str(sRetired), Str(<<"m","a","y","b","e">>),
            Str(<<"x">>), Num(1), Num(1))

Frame(rows) == [cols |-> AllCols, rows |-> rows]
Drop(d, labels) ==
    [cols |-> d.cols \ labels,
     rows |-> [i \in 1..Len(d.rows) |-> [c \in d.cols \ labels |-> d.rows[i][c]]]]

WorkbookSeq ==
    << Frame(<<RowA, RowB>>),
       Frame(<<RowC, RowD, RowA>>),
       Frame(<<RowA, RowE>>),
       Frame(<<>>),
       Drop(Frame(<<RowA, RowB>>), {"Plant name"}),
       Drop(Frame(<<RowC>>), {"Owner"}),
       Drop(Frame(<<RowA, RowB>>), {"Country"}) >>

Workbooks == Range(WorkbookSeq)

\* An edit of the workbook: the next one of the family.
Edited(w) ==
    LET i == CHOOSE j \in 1..Len(WorkbookSeq) : WorkbookSeq[j] = w
    IN  WorkbookSeq[(i % Len(WorkbookSeq)) + 1]

----------------------------------------------------------------------------
(* Bounds *)

\* The file-system clock stops here.
MaxClock == 2
\* At most this many sidebar dropdowns are moved away from "All" in one run.
MaxChanged == 1

----------------------------------------------------------------------------
(* The script: one run of main() per user interaction, files changed between runs *)

NoUi == [error |-> FALSE, crashed |-> FALSE, filters |-> FALSE, applied |-> FALSE, metrics |-> NoMetrics,
         mapWarning |-> FALSE, markers |-> -1, tableWarning |-> {}, table |-> FALSE]

NoRun == [srcExisted |-> FALSE, cacheExisted |-> FALSE, m |-> 0, c |-> 0,
          hit |-> FALSE, seen |-> FALSE, prev |-> NoFrame, prevLoaded |-> FALSE, prevM |-> 0,
          load |-> NoLoad]

NoChoice == [col \in Range(options) |-> 1]
NoSelections == [col \in Range(options) |-> <<>>]

Between == pc = "idle"
Ended == pc \in {"done", "stopped", "crashed"}

InitMain ==
    /\ pc = "idle" /\ df = NoFrame /\ choice = NoChoice
    /\ selections = NoSelections /\ filtered = NoFrame /\ ui = NoUi

InitChp == chpIn = NaN /\ chpOut = NaN
InitFilter == fD = NoFrame /\ fS = NoSelections /\ fOut = NoFrame /\ fpc = "off"

Init ==
    /\ clock = 1
    /\ srcExists \in BOOLEAN
    /\ srcData \in Workbooks
    /\ srcMtime = (IF srcExists THEN clock ELSE 0)
    \* A cache left by an earlier process, written from the workbook as it is now.
    /\ cacheExists \in (IF srcExists /\ Writable(srcData) THEN BOOLEAN ELSE {FALSE})
    /\ cacheData = (IF cacheExists THEN ToParquet(srcData) ELSE NoCache)
    /\ cacheMtime = (IF cacheExists THEN clock ELSE 0)
    /\ cacheOrigin = [valid |-> FALSE, df |-> NoFrame]
    /\ memo = <<>> /\ completed = <<>>
    /\ lastLoad = [any |-> FALSE, m |-> 0]
    /\ run = NoRun
    /\ InitMain /\ InitChp /\ InitFilter

\* Lines 179-183: stat both files and call load_data through st.cache_data.
StartRun ==
    /\ Between
    /\ \E ioOk \in BOOLEAN :
        LET data_mtime == IF srcExists THEN srcMtime ELSE 0
            parquet_mtime == IF cacheExists THEN cacheMtime ELSE 0
            key == MemoKey(DATA_PATH, data_mtime, parquet_mtime)
            hit == key \in DOMAIN memo
            r == IF hit
                 THEN [NoLoad EXCEPT !.outcome = "ok", !.df = memo[key]]
                 ELSE LoadBody(srcExists, cacheExists, data_mtime, parquet_mtime,
                               srcData, cacheData, ioOk)
        IN  /\ run' = [srcExisted |-> srcExists, cacheExisted |-> cacheExists,
                       m |-> data_mtime, c |-> parquet_mtime,
                       hit |-> hit, seen |-> key \in DOMAIN completed,
                       prev |-> IF key \in DOMAIN completed THEN completed[key] ELSE NoFrame,
                       prevLoaded |-> lastLoad.any, prevM |-> lastLoad.m,
                       load |-> r]
            /\ IF r.wrote
               THEN /\ cacheExists' = TRUE
                    /\ cacheMtime' = clock
                    /\ cacheData' = ToParquet(srcData)
                    /\ cacheOrigin' = [valid |-> r.outcome = "ok", df |-> r.df]
               ELSE UNCHANGED <<cacheExists, cacheMtime, cacheData, cacheOrigin>>
            /\ IF r.outcome = "ok"
               THEN /\ memo' = (IF hit THEN memo ELSE MemoStore(memo, key, r.df))
                    /\ completed' = (key :> r.df) @@ completed
                    /\ lastLoad' = [any |-> TRUE, m |-> data_mtime]
               ELSE UNCHANGED <<memo, completed, lastLoad>>
            /\ df' = r.df
            /\ ui' = [NoUi EXCEPT !.error = r.error, !.crashed = (r.outcome = "crash")]
            /\ pc' = (CASE r.outcome = "ok" -> "loaded"
                        [] r.outcome = "stop" -> "stopped"
                        [] OTHER -> "crashed")
    /\ choice' = NoChoice /\ selections' = NoSelections /\ filtered' = NoFrame
    /\ UNCHANGED <<srcExists, srcMtime, srcData, clock, chpVars, filterVars>>

\* The index tuples the selectboxes can return, at most MaxChanged of them not 0 ("All").
RECURSIVE IndexChoices(_, _, _)
IndexChoices(d, i, left) ==
    IF i > Len(options) THEN {NoChoice}
    ELSE LET col == options[i]
         IN  {f : f \in IndexChoices(d, i + 1, left)}
             \cup (IF left = 0 THEN {}
                   ELSE {[f EXCEPT ![col] = x] :
                            f \in IndexChoices(d, i + 1, left - 1),
                            x \in 2..Len(Values(d, col))})

\* Lines 186-187: selections = build_filters(df); filtered = apply_filters(df, selections)
FilterRun ==
    /\ pc = "loaded"
    /\ IF ~HasCols(df, Range(options))
       THEN pc' = "crashed" /\ UNCHANGED <<choice, selections, filtered, ui>>   \* KeyError
       ELSE \E idx \in IndexChoices(df, 1, MaxChanged) :
                /\ choice' = idx
                /\ selections' = BuildFilters(df, idx)
                /\ filtered' = ApplyFilters(df, selections')
                /\ ui' = [ui EXCEPT !.filters = TRUE, !.applied = TRUE]
                /\ pc' = "filtered"
    /\ UNCHANGED <<loaderVars, df, chpVars, filterVars>>

\* Lines 192-196: the three metrics; KeyError without their columns
ShowMetrics(u, d) ==
    IF HasCols(d, {"Plant name", "Capacity (MW)"})
    THEN [u EXCEPT !.metrics = Metrics(d)]
    ELSE [u EXCEPT !.crashed = TRUE]

\* Lines 198-200: make_map(filtered) and the chart.  dropna raises KeyError without
\* its subset columns, scatter_mapbox raises ValueError without the columns it is given.
ShowMap(u, d) ==
    IF u.crashed THEN u
    ELSE IF ~HasCols(d, {"Latitude", "Longitude", "Capacity (MW)"})
    THEN [u EXCEPT !.crashed = TRUE]
    ELSE IF PlotRows(d) = <<>>
    THEN [u EXCEPT !.mapWarning = TRUE]
    ELSE IF ~HasCols(d, map_cols)
    THEN [u EXCEPT !.crashed = TRUE]
    ELSE [u EXCEPT !.markers = Len(PlotRows(d))]

\* Lines 202-221: the detail table or the missing-columns warning
ShowTable(u, d) ==
    IF u.crashed THEN u
    ELSE IF MissingCols(d) # {}
    THEN [u EXCEPT !.tableWarning = MissingCols(d)]
    ELSE [u EXCEPT !.table = TRUE]

\* Lines 189-221: the "Map & Plants" tab
RenderRun ==
    /\ pc = "filtered"
    /\ ui' = ShowTable(ShowMap(ShowMetrics(ui, filtered), filtered), filtered)
    /\ pc' = (IF ui'.crashed THEN "crashed" ELSE "done")
    /\ UNCHANGED <<loaderVars, df, choice, selections, filtered, chpVars, filterVars>>

\* The script run is over; the page waits for the next interaction.
EndRun ==
    /\ Ended
    /\ pc' = "idle" /\ df' = NoFrame /\ choice' = NoChoice
    /\ selections' = NoSelections /\ filtered' = NoFrame /\ ui' = NoUi
    /\ run' = NoRun
    /\ UNCHANGED <<srcExists, srcMtime, srcData, cacheExists, cacheMtime, cacheData, clock,
                   memo, completed, lastLoad, cacheOrigin, chpVars, filterVars>>

(* The environment, between runs: the clock and the workbook.  The cache file is
   written by load_data alone; one left by an earlier process may be there at the start. *)

Tick ==
    /\ Between /\ clock < MaxClock
    /\ clock' = clock + 1
    /\ UNCHANGED <<srcExists, srcMtime, srcData, cacheExists, cacheMtime, cacheData,
                   memo, completed, lastLoad, cacheOrigin, run, mainVars, chpVars, filterVars>>

\* The workbook is saved again, as it was or edited, or put back after a deletion;
\* its modification time becomes the current time, later than the one it had.
TouchSource ==
    /\ Between /\ clock > srcMtime
    /\ \E w \in {srcData, Edited(srcData)} :
        /\ srcExists' = TRUE /\ srcData' = w /\ srcMtime' = clock
    /\ UNCHANGED <<cacheExists, cacheMtime, cacheData, clock,
                   memo, completed, lastLoad, cacheOrigin, run, mainVars, chpVars, filterVars>>

\* The workbook is removed (srcData and srcMtime keep what it last was).
DeleteSource ==
    /\ Between /\ srcExists
    /\ srcExists' = FALSE
    /\ UNCHANGED <<srcMtime, srcData, cacheExists, cacheMtime, cacheData, clock,
                   memo, completed, lastLoad, cacheOrigin, run, mainVars, chpVars, filterVars>>

Next ==
    \/ StartRun \/ FilterRun \/ RenderRun \/ EndRun
    \/ Tick \/ TouchSource \/ DeleteSource

Spec == Init /\ [][Next]_vars

----------------------------------------------------------------------------
(* The CHP normalisation of load_data on one raw cell *)

\* Raw CHP strings are at most this long (besides the listed spellings).
MaxChpLen == 3

ChpAlphabet == {"y", "e", "s", "n", "o", "Y", "N", " "}

RECURSIVE StringsUpTo(_)
StringsUpTo(n) ==
    IF n = 0 THEN {<<>>}
    ELSE LET shorter == StringsUpTo(n - 1)
         IN  shorter \cup {<<ch>> \o s : ch \in ChpAlphabet, s \in {x \in shorter : Len(x) = n - 1}}

ChpSpellings ==
    { <<"Y","e","s">>, <<"Y","E","S">>, <<" ","y","e","s"," ">>, <<"\t","N","o"," "," ">>,
      <<"N","O","T"," ","F","O","U","N","D">>, <<"n","o","t"," ","f","o","u","n","d">>,
      <<"N","o","t"," "," ","f","o","u","n","d">>, <<"n","o","t","f","o","u","n","d">>,
      <<"U","n","k","n","o","w","n">>, <<"n","a","n">>, <<"m","a","y","b","e">>,
      <<"y","e","s","!">>, <<"1">> }

ChpInputs == {NaN} \cup {Str(s) : s \in StringsUpTo(MaxChpLen) \cup ChpSpellings}

Pending == [k |-> "pending", s |-> <<>>, n |-> 0]

LoaderOff ==
    /\ clock = 1 /\ srcExists = FALSE /\ srcData = NoFrame /\ srcMtime = 0
    /\ cacheExists = FALSE /\ cacheData = NoCache /\ cacheMtime = 0
    /\ cacheOrigin = [valid |-> FALSE, df |-> NoFrame]
    /\ memo = <<>> /\ completed = <<>> /\ lastLoad = [any |-> FALSE, m |-> 0]
    /\ run = NoRun

InitChpSpec ==
    /\ chpIn \in ChpInputs /\ chpOut = Pending
    /\ LoaderOff /\ InitMain /\ InitFilter

\* Lines 68 and 73-80 on the cell of one row
NormalizeChp ==
    /\ chpOut = Pending
    /\ chpOut' = ChpValue(FillCell("CHP", chpIn))
    /\ UNCHANGED <<chpIn, loaderVars, mainVars, filterVars>>

NextChp == NormalizeChp

SpecChp == InitChpSpec /\ [][NextChp]_vars

----------------------------------------------------------------------------
(* apply_filters on arbitrary frames and selections *)

\* Frames given to apply_filters have at most this many rows.
MaxRows == 2

sGas == <<"G","a","s">>
sOil == <<"O","i","l">>

FilterRow(country, status) ==
    [c \in Range(options) |->
        CASE c = "Country" -> country
          [] c = "Status" -> status
          [] c = "CHP" -> Str(sYes)
          [] OTHER -> Str(sGas)]

FilterRows ==
    {FilterRow(country, status) :
        country \in {Str(sUSA), Str(sIndia), NaN},
        status \in {Str(sOperating), Str(sRetired)}}

RECURSIVE SeqsUpTo(_, _)
SeqsUpTo(S, n) ==
    IF n = 0 THEN {<<>>}
    ELSE LET shorter == SeqsUpTo(S, n - 1)
         IN  shorter \cup {<<x>> \o q : x \in S, q \in {y \in shorter : Len(y) = n - 1}}

FilterFrames == {[cols |-> Range(options), rows |-> rows] : rows \in SeqsUpTo(FilterRows, MaxRows)}

\* A list holding the members of a set (some order).
RECURSIVE ListOf(_)
ListOf(S) == IF S = {} THEN <<>> ELSE LET x == CHOOSE y \in S : TRUE IN <<x>> \o ListOf(S \ {x})

OtherCols == Range(options) \ {"Country", "Status"}
Present(c) == IF c = "CHP" THEN Str(sYes) ELSE Str(sGas)

\* What the five other columns accept: nothing chosen, one column set to the value its
\* rows have or to one they do not have, or every column set to the value its rows have.
OtherSelections ==
    {[c \in OtherCols |-> <<>>], [c \in OtherCols |-> <<Present(c)>>]}
    \cup UNION {{[c \in OtherCols |-> IF c = one THEN <<v>> ELSE <<>>] :
                    v \in {Present(one), Str(sOil)}} : one \in OtherCols}

FilterSelections ==
    {[c \in Range(options) |->
        CASE c = "Country" -> ListOf(cs)
          [] c = "Status" -> ListOf(ss)
          [] OTHER -> o[c]] :
        cs \in SUBSET {Str(sUSA), Str(sIndia), NaN},
        ss \in SUBSET {Str(sOperating), Str(sRetired)},
        o \in OtherSelections}

InitFilterSpec ==
    /\ fD \in FilterFrames /\ fS \in FilterSelections
    /\ fOut = NoFrame /\ fpc = "call"
    /\ LoaderOff /\ InitMain /\ InitChp

\* Lines 123-127
ApplyCall ==
    /\ fpc = "call"
    /\ fOut' = ApplyFilters(fD, fS)
    /\ fpc' = "ret"
    /\ UNCHANGED <<fD, fS, loaderVars, mainVars, chpVars>>

NextFilter == ApplyCall

SpecFilter == InitFilterSpec /\ [][NextFilter]_vars

----------------------------------------------------------------------------
(* Properties *)

BodyRan == run.load.outcome # "none" /\ ~run.hit

\* C1: when load_data's body runs with the source present, the cache is read only if it
\* exists and is at least as new as the source; otherwise the source is parsed and a
\* cache rewrite is attempted, and a failed rewrite still returns the parsed dataset.
C1_CacheOnlyWhenFresh ==
    (BodyRan /\ run.srcExisted) =>
        /\ run.load.readCache => (run.cacheExisted /\ run.c >= run.m)
        /\ ~run.load.readCache => (run.load.readSrc /\ run.load.writeTried)
        /\ ~(run.load.readCache /\ run.load.readSrc)
        /\ (run.load.writeTried /\ ~run.load.wrote /\ HasCols(srcData, Range(text_cols)))
              => (run.load.outcome = "ok" /\ run.load.df = Normalize(srcData))

\* A stale cache was passed over, the source parsed, the rewrite failed, the load returned.
C1_Witness ==
    /\ BodyRan /\ run.srcExisted /\ run.cacheExisted /\ run.c < run.m
    /\ run.load.readSrc /\ run.load.writeTried /\ ~run.load.wrote
    /\ run.load.outcome = "ok"

\* C2: a rerun reads the source file or the cache again only if the source file's
\* modification time has advanced since the previous load.
C2_LoadedOnce ==
    (run.prevLoaded /\ (run.load.readSrc \/ run.load.readCache)) => run.m > run.prevM

\* C3: a call of load_data whose (path, source mtime, cache mtime) equal those of an
\* earlier completed call returns that call's result and reads neither file.
C3_Memoized ==
    (run.seen /\ run.load.outcome # "none") =>
        /\ run.load.outcome = "ok"
        /\ run.load.df = run.prev
        /\ ~run.load.readSrc /\ ~run.load.readCache /\ ~run.load.writeTried

\* A second call with the arguments of an earlier one, whose result had rows.
C3_Witness == run.seen /\ pc = "loaded" /\ run.prev.rows # <<>> /\ run.cacheExisted

\* C4: with the source file missing, the run shows the "data file not found" error and
\* halts: the cache is not read, no filter is built or applied, no metric, map or table.
C4_MissingSourceHalts ==
    (pc # "idle" /\ ~run.srcExisted) =>
        /\ pc = "stopped" /\ ui.error
        /\ ~run.load.readCache /\ ~run.load.readSrc
        /\ ~ui.filters /\ ~ui.applied /\ ui.metrics = NoMetrics
        /\ ~ui.mapWarning /\ ui.markers = -1
        /\ ui.tableWarning = {} /\ ~ui.table

\* The run stopped on the missing source while a cache file was there.
C4_Witness == pc = "stopped" /\ ~run.srcExisted /\ run.cacheExisted /\ ui.error

\* C5: a load that reads the cache written by an earlier load returns exactly the
\* dataset that earlier load returned from the source.
C5_CacheRoundTrip ==
    (run.load.readCache /\ run.load.outcome = "ok" /\ cacheOrigin.valid) =>
        run.load.df = cacheOrigin.df

\* The cache written by a parse was read back, for a workbook with missing values.
C5_Witness ==
    /\ run.load.readCache /\ run.load.outcome = "ok" /\ cacheOrigin.valid
    /\ \E i \in 1..Len(run.load.df.rows) :
          /\ run.load.df.rows[i]["Country"] = Str(sUnknown)
          /\ IsNa(run.load.df.rows[i]["Capacity (MW)"])

\* C6: with the source file present no failure terminates the run; a dataset lacking a
\* display column reaches the detail-table step and gets the warning.
C6_NoCrash ==
    run.srcExisted =>
        /\ pc # "crashed"
        /\ (pc = "done" /\ MissingCols(filtered) # {}) => ui.tableWarning = MissingCols(filtered)

\* C7: apply_filters returns, in order, exactly the rows whose value is accepted by every
\* column with a non-empty accepted list; never more rows than it was given.
Accepted(r, sel) == \A c \in DOMAIN sel : sel[c] = <<>> \/ r[c] \in Range(sel[c])
C7_ExactRows ==
    fpc = "ret" =>
        /\ fOut.cols = fD.cols
        /\ fOut.rows = SelectSeq(fD.rows, LAMBDA r : Accepted(r, fS))
        /\ Len(fOut.rows) <= Len(fD.rows)

\* Two columns constrain, a column is unconstrained, some rows are kept and some dropped.
C7_Witness ==
    /\ fpc = "ret" /\ fS["Country"] # <<>> /\ fS["Status"] # <<>> /\ fS["Fuel"] = <<>>
    /\ fOut.rows # <<>> /\ Len(fOut.rows) < Len(fD.rows)

\* C8: with every dropdown at "All", the selection accepts every value present in each
\* filterable column and apply_filters returns the loaded dataset unchanged.
C8_AllKeepsEverything ==
    (ui.applied /\ choice = NoChoice) =>
        /\ filtered = df
        /\ \A c \in Range(options) : Range(selections[c]) = ColumnCells(df, c)

\* "All" everywhere on a dataset whose raw Country and Status had missing values.
C8_Witness ==
    /\ ui.applied /\ choice = NoChoice /\ Len(filtered.rows) = 3
    /\ \E i \in 1..Len(df.rows) : df.rows[i]["Country"] = Str(sUnknown)
    /\ \E i \in 1..Len(df.rows) : df.rows[i]["Status"] = Str(sUnknown)

\* C9: a normalised CHP value is one of Yes, No, Not found, Unknown, decided ignoring
\* case and surrounding whitespace; missing and unrecognised values give Unknown.
SameLetter(a, b) ==
    a = b \/ \E i \in 1..Len(UpperSeq) : {a, b} = {UpperSeq[i], LowerSeq[i]}
Spells(s, word) ==
    \E i \in 1..Len(s) :
        /\ i + Len(word) - 1 <= Len(s)
        /\ \A k \in 1..Len(s) : (k < i \/ k > i + Len(word) - 1) => s[k] \in Whitespace
        /\ \A k \in 1..Len(word) : SameLetter(s[i + k - 1], word[k])
ChpExpected(v) ==
    IF IsNa(v) THEN Str(sUnknown)
    ELSE IF Spells(v.s, <<"y","e","s">>) \/ Spells(v.s, <<"y">>) THEN Str(sYes)
    ELSE IF Spells(v.s, <<"n","o">>) \/ Spells(v.s, <<"n">>) THEN Str(sNo)
    ELSE IF Spells(v.s, <<"n","o","t"," ","f","o","u","n","d">>) THEN Str(sNotFound)
    ELSE Str(sUnknown)
C9_ChpValues ==
    chpOut # Pending =>
        /\ chpOut \in {Str(sYes), Str(sNo), Str(sNotFound), Str(sUnknown)}
        /\ chpOut = ChpExpected(chpIn)
        /\ chpIn \in {Str(<<"y","e","s">>), Str(<<"Y","e","s">>), Str(<<"Y","E","S">>),
                      Str(<<" ","y","e","s"," ">>)} => chpOut = Str(sYes)
        /\ chpIn \in {Str(<<"n","o">>), Str(<<"N">>)} => chpOut = Str(sNo)
        /\ chpIn = Str(<<"N","O","T"," ","F","O","U","N","D">>) => chpOut = Str(sNotFound)
        /\ chpIn \in {NaN, Str(<<"m","a","y","b","e">>)} => chpOut = Str(sUnknown)

\* " yes " came out as "Yes".
C9_Witness == chpIn = Str(<<" ","y","e","s"," ">>) /\ chpOut = Str(sYes)

\* C10: with one dropdown set to a value v of its column and the others at "All",
\* build_filters captures [v] and the filtered dataset is exactly the rows with value v.
C10_SingleValue ==
    \A c \in Range(options) :
        (ui.applied /\ choice[c] # 1 /\ \A o \in Range(options) \ {c} : choice[o] = 1) =>
            LET v == Values(df, c)[choice[c]]
            IN  /\ selections[c] = <<v>>
                /\ filtered.rows = SelectSeq(df.rows, LAMBDA r : r[c] = v)

====
